---- MODULE Spec2Model ----
(***************************************************************************)
(* Model of src/app.py: the /download route (download_latest_files), its   *)
(* four resolution handlers and the SAS link issuer (generate_sas_url).    *)
(* One behaviour is one request.  Strings that the code inspects (object   *)
(* names, company ids, upload ids, CSV cells) are sequences of characters; *)
(* Python's None is the one-element sequence None.                         *)
(***************************************************************************)
EXTENDS Integers, Sequences, FiniteSets, TLC

\* ------------------------------------------------------------------ bounds
MaxBlobs == 3        \* objects held by the storage account, over all its containers
MaxTime == 2         \* last_modified and created_on range over 1..MaxTime
MaxRecords == 2      \* records of the upload-tracking collection

\* ------------------------------------------------------------ Python values
None == <<"None">>

\* `not v` is false exactly for a non-empty string (None and "" are falsy)
Truthy(v) == v # None /\ v # <<>>

\* `sub in s` on strings
Contains(sub, s) ==
    \E i \in 0..(Len(s) - Len(sub)) : SubSeq(s, i + 1, i + Len(sub)) = sub

\* the service side filter of list_blobs(name_starts_with=prefix)
StartsWith(s, prefix) ==
    Len(prefix) <= Len(s) /\ SubSeq(s, 1, Len(prefix)) = prefix

RECURSIVE LStrip(_)
LStrip(s) == IF s # <<>> /\ Head(s) = " " THEN LStrip(Tail(s)) ELSE s

RECURSIVE RStrip(_)
RStrip(s) ==
    IF s # <<>> /\ s[Len(s)] = " " THEN RStrip(SubSeq(s, 1, Len(s) - 1)) ELSE s

\* str.strip()
Strip(s) == LStrip(RStrip(s))

LowerChar(c) == IF c = "A" THEN "a" ELSE IF c = "B" THEN "b" ELSE c

\* str.lower()
Lower(s) == [i \in 1..Len(s) |-> LowerChar(s[i])]

\* .strip().lower() of the target, .str.strip().str.lower() of the column
Normalize(s) == Lower(Strip(s))

\* ------------------------------------------------------------ configuration
RecencyApps == {"EAROI", "MCE", "CISCOIBR", "BYOW"}
WorkbookApps == {"F5", "CHECKPOINT"}

\* the keys of app_container_mapping
ConfiguredApps == {"ATnA", "PALOALTO"} \cup WorkbookApps \cup RecencyApps

\* number of entries of the 'containers' list of each key
ContainerCount(app) == IF app = "PALOALTO" THEN 2 ELSE 1

\* the 'account_name' of a key
AccountName(app) == <<"account", app>>

\* values the CONTAINER_* environment variables take
ContainerNames == {"c1", "c2"}

Range(f) == {f[i] : i \in DOMAIN f}

\* The 'containers' list of a key as the environment fills it in.  The name of
\* the first container is fixed (the names are interchangeable).
DeployedLists(app) ==
    {l \in [1..ContainerCount(app) -> ContainerNames] : l[1] = "c1"}

\* Container lists of one or two containers for any key: the handlers only
\* iterate the list, and SpecTable checks them on these lists as well.
TableLists == {<<"c1">>, <<"c1", "c1">>, <<"c1", "c2">>}

ListsFor(app, general) == IF general THEN TableLists ELSE DeployedLists(app)

\* app_container_mapping with the entry of the requested key set to l
Mapping(app, l) ==
    [a \in ConfiguredApps |->
        IF a = app THEN l
        ELSE [i \in 1..ContainerCount(a) |-> IF i = 1 THEN "c1" ELSE "c2"]]

\* ------------------------------------------------------------- the request
NoneName == "<None>"          \* request.json.get('application_name') is None
TruthyName(n) == n # NoneName /\ n # ""
AppNames == ConfiguredApps \cup {"UNKNOWN", "", NoneName}
CompanyIds == {<<"a">>, <<"a", "b">>}
RequestIds == CompanyIds \cup {<<>>, None}

\* ------------------------------------------------------------- the storage
Names == {<<"a">>, <<"b">>, <<"a", "b">>}

\* what download_blob + pandas.read_csv make of an object: ok = FALSE when the
\* download or the parse raises, else the table's 'CSP Acct Name' column
BodyError == [ok |-> FALSE, has_column |-> FALSE, cells |-> <<>>]
BodyNoColumn == [ok |-> TRUE, has_column |-> FALSE, cells |-> <<>>]
BodyColumn(cells) == [ok |-> TRUE, has_column |-> TRUE, cells |-> cells]
Columns == {<<<<" ", "A">>>>, <<<<"b">>>>, <<<<"b">>, <<"a", " ">>>>}
Bodies == {BodyError, BodyNoColumn} \cup {BodyColumn(c) : c \in Columns}

BlobsOf(names, times, bodies) ==
    [name : names, last_modified : times, body : bodies]

\* listings: the objects of one container in listing order, names distinct
Listings(blobs) ==
    {l \in UNION {[1..n -> blobs] : n \in 0..MaxBlobs} :
        \A i, j \in DOMAIN l : i # j => l[i].name # l[j].name}

Storages(l, blobs) ==
    {s \in [ContainerNames -> Listings(blobs)] :
        /\ Len(s["c1"]) + Len(s["c2"]) <= MaxBlobs
        /\ \A c \in ContainerNames \ Range(l) : s[c] = <<>>}

EmptyStorage == [c \in ContainerNames |-> <<>>]

\* ------------------------------------------------- the metadata collections
UploadLists == {<<>>, <<<<"a">>>>, <<<<"b">>, <<"a">>>>}

\* a document of the upload-tracking collection; has_uploads = FALSE when it
\* has no 'asset_add_uploads' key
UploadRecords ==
    {r \in [company_id : CompanyIds, created_on : 1..MaxTime,
            has_uploads : BOOLEAN, asset_add_uploads : UploadLists] :
        ~r.has_uploads => r.asset_add_uploads = <<>>}

\* the subsets of S of at most k elements
RECURSIVE SubsetsUpTo(_, _)
SubsetsUpTo(S, k) ==
    IF k = 0 THEN {{}}
    ELSE LET smaller == SubsetsUpTo(S, k - 1)
         IN  smaller \cup {c \cup {x} : c \in smaller, x \in S}

UploadCollections == SubsetsUpTo(UploadRecords, MaxRecords)

F5Fields ==
    <<"license_asset_summary_workbook_processed",
      "pricing_retired_workbook_processed",
      "pricing_active_workbook_processed">>
CheckpointFields ==
    <<"orders_workbook_processed", "product_list_workbook_processed">>
FieldNames == Range(F5Fields) \cup Range(CheckpointFields)

\* value of a workbook field: None (absent), "" or a file name
FieldValues == {None, <<>>, <<"a">>, <<"a", "b">>}
NoFields == [f \in FieldNames |-> None]

\* connection_details: entries with csp_acct_name None (absent) or a string
AcctNames == {None, <<"a">>, <<" ", "A">>, <<"b">>}
ConnectionDetails ==
    {<<>>} \cup {<<[csp_acct_name |-> n]>> : n \in AcctNames}
        \cup {<<[csp_acct_name |-> <<"a">>], [csp_acct_name |-> <<"b">>]>>}

GenericRecord(cid, fields, details) ==
    [company_id |-> cid, fields |-> fields, connection_details |-> details]

OtherCompany(cid) == CHOOSE c \in CompanyIds : c # cid

\* the generic collection holds at most one document per company
NoRecordCollections(cid) ==
    {{}, {GenericRecord(OtherCompany(cid), NoFields, <<>>)}}

WorkbookCollections(app, cid) ==
    LET used == IF app = "F5" THEN Range(F5Fields) ELSE Range(CheckpointFields)
    IN  NoRecordCollections(cid) \cup
        {{GenericRecord(cid, f, <<>>)} :
            f \in {g \in [FieldNames -> FieldValues] :
                      \A n \in FieldNames \ used : g[n] = None}}

ContentCollections(cid) ==
    NoRecordCollections(cid) \cup
        {{GenericRecord(cid, NoFields, d)} : d \in ConnectionDetails}

\* ------------------------------------------------------------------ state
VARIABLES
    app_name,               \* request.json.get('application_name')
    company_id,             \* request.json.get('company_id')
    app_container_mapping,  \* key -> its 'containers' list
    storage,                \* container name -> objects in listing order
    upload_collection,      \* documents of the upload-tracking collection
    generic_collection,     \* documents of the generic collection
    pc,                     \* position of the request in the code
    invoked,                \* the handlers the dispatcher has called, in order
    upload_id,              \* handle_atna_download's upload_id
    files_to_download,      \* handle_f5_checkpoint_download's list
    csp_acct_name,          \* handle_paloalto_download's normalized target
    fi, ci, bi,             \* loop positions: file, container, object
    sas_links,              \* sas_links / matching_files accumulated so far
    latest_blob,            \* <<>> for None, else <<the blob>>
    latest_container,       \* "" for None, else the container name
    scanned,                \* <<container index, object index>> of every object visited
    sas_calls,              \* every generate_sas_url call and whether it returned
    warnings,               \* objects logged by logging.warning
    response                \* the (body, status) returned to the caller

config == <<app_name, company_id, app_container_mapping, storage,
            upload_collection, generic_collection>>
locals == <<upload_id, files_to_download, csp_acct_name, latest_blob,
            latest_container>>
loops == <<fi, ci, bi>>
vars == <<config, locals, loops, pc, invoked, sas_links, scanned, sas_calls,
          warnings, response>>

\* ------------------------------------------------------------- responses
Response(status, key, text, files) ==
    [status |-> status, key |-> key, text |-> text, files |-> files]

NoResponse == Response(0, "", "", <<>>)
InvalidRequest ==
    Response(400, "error", "Missing application_name or company_id", <<>>)
UnknownApplication == Response(400, "error", "Invalid application name", <<>>)
NoUploadRecord ==
    Response(404, "error", "No upload_id found for the given company_id", <<>>)
NoFileForUpload ==
    Response(404, "error", "No file found matching upload_id", <<>>)
NoClientRecord == Response(404, "error", "No record found for company_id", <<>>)
NoFilenamesConfigured ==
    Response(404, "error", "No workbook filenames found in MongoDB record", <<>>)
NoMatchingBlobs ==
    Response(404, "error", "No matching blobs found in containers", <<>>)
NoAccountNameConfigured ==
    Response(404, "error", "No csp_acct_name found", <<>>)
\* NoMatchingData answered as the other handlers answer an empty scan
NoMatchingData_NotFound ==
    Response(404, "error", "No matching data found", <<>>)
NoMatchingData == Response(200, "message", "No matching data found", <<>>)
NoFilesFound == Response(200, "message", "No files found for company_id", <<>>)
LinkIssuanceError ==
    Response(500, "error", "Failed to generate download link", <<>>)
\* an exception that leaves the view function: Flask answers 500
UnhandledException == Response(500, "exception", "Internal Server Error", <<>>)
SasLinks(files) == Response(200, "message", "SAS links generated", files)
SasLink(file) == Response(200, "message", "SAS link generated", <<file>>)
DownloadLink(file) == Response(200, "message", "Download link generated", <<file>>)

\* generate_sas_url signing for the container the table lists first
generate_sas_url_FirstContainer(account_name, container_name, blob_name) ==
    [account |-> account_name, container |-> "c1", blob |-> blob_name]

\* the URL generate_sas_url returns: the account, and the container and blob
\* the SAS token is signed for
generate_sas_url(account_name, container_name, blob_name) ==
    [account |-> account_name, container |-> container_name, blob |-> blob_name]

MatchedFile(file, url) == [file |-> file, download_url |-> url]

\* --------------------------------------------------------------- Init
InitProcess ==
    /\ pc = "request"
    /\ invoked = <<>>
    /\ upload_id = None
    /\ files_to_download = <<>>
    /\ csp_acct_name = None
    /\ fi = 1 /\ ci = 1 /\ bi = 1
    /\ sas_links = <<>>
    /\ latest_blob = <<>>
    /\ latest_container = ""
    /\ scanned = <<>>
    /\ sas_calls = <<>>
    /\ warnings = <<>>
    /\ response = NoResponse

\* requests the dispatcher rejects
InitRejected ==
    /\ app_name \in AppNames
    /\ company_id \in RequestIds
    /\ ~TruthyName(app_name) \/ ~Truthy(company_id) \/ app_name \notin ConfiguredApps
    /\ app_container_mapping = Mapping("", <<>>)
    /\ storage = EmptyStorage
    /\ upload_collection = {}
    /\ generic_collection = {}

InitUploadTracking(general) ==
    /\ app_name = "ATnA"
    /\ company_id \in CompanyIds
    /\ \E l \in ListsFor(app_name, general) :
        /\ app_container_mapping = Mapping(app_name, l)
        /\ storage \in Storages(l, BlobsOf(Names, {1}, {BodyNoColumn}))
    /\ upload_collection \in UploadCollections
    /\ generic_collection = {}

InitWorkbook(general) ==
    /\ app_name \in WorkbookApps
    /\ company_id \in CompanyIds
    /\ \E l \in ListsFor(app_name, general) :
        /\ app_container_mapping = Mapping(app_name, l)
        /\ storage \in Storages(l, BlobsOf(Names, {1}, {BodyNoColumn}))
    /\ upload_collection = {}
    /\ generic_collection \in WorkbookCollections(app_name, company_id)

InitContentMatch(general) ==
    /\ app_name = "PALOALTO"
    /\ company_id \in CompanyIds
    /\ \E l \in ListsFor(app_name, general) :
        /\ app_container_mapping = Mapping(app_name, l)
        /\ storage \in Storages(l, BlobsOf({<<"a">>, <<"b">>}, {1}, Bodies))
    /\ upload_collection = {}
    /\ generic_collection \in ContentCollections(company_id)

InitRecency(general) ==
    /\ app_name \in RecencyApps
    /\ company_id \in CompanyIds
    /\ \E l \in ListsFor(app_name, general) :
        /\ app_container_mapping = Mapping(app_name, l)
        /\ storage \in Storages(l, BlobsOf(Names, 1..MaxTime, {BodyNoColumn}))
    /\ upload_collection = {}
    /\ generic_collection = {}

InitRequest(general) ==
    \/ InitRejected
    \/ InitUploadTracking(general)
    \/ InitWorkbook(general)
    \/ InitContentMatch(general)
    \/ InitRecency(general)

\* the service as deployed: every table entry has the shape the source gives it
Init == InitProcess /\ InitRequest(FALSE)

\* any table entry may list one or two containers
InitTable == InitProcess /\ InitRequest(TRUE)

\* RequestError with the table lookup made before the check for empty inputs
RequestError_TableFirst(app, cid, table) ==
    IF app \notin DOMAIN table THEN UnknownApplication
    ELSE IF ~TruthyName(app) \/ ~Truthy(cid) THEN InvalidRequest
    ELSE NoResponse

\* ------------------------------------------------------ download_latest_files
\* the two validations of the route; NoResponse when the request passes both
RequestError(app, cid, table) ==
    IF ~TruthyName(app) \/ ~Truthy(cid) THEN InvalidRequest
    ELSE IF app \notin DOMAIN table THEN UnknownApplication
    ELSE NoResponse

\* StrategyFor with CHECKPOINT left out of the second branch
StrategyFor_F5Only(app) ==
    IF app = "ATnA" THEN "handle_atna_download"
    ELSE IF app = "F5" THEN "handle_f5_checkpoint_download"
    ELSE IF app = "PALOALTO" THEN "handle_paloalto_download"
    ELSE "handle_latest_blob_download"

\* the if / elif chain of the route
StrategyFor(app) ==
    IF app = "ATnA" THEN "handle_atna_download"
    ELSE IF app \in {"F5", "CHECKPOINT"} THEN "handle_f5_checkpoint_download"
    ELSE IF app = "PALOALTO" THEN "handle_paloalto_download"
    ELSE "handle_latest_blob_download"

Respond(r) == pc' = "done" /\ response' = r

download_latest_files ==
    /\ pc = "request"
    /\ LET err == RequestError(app_name, company_id, app_container_mapping)
       IN  IF err # NoResponse
           THEN Respond(err) /\ UNCHANGED invoked
           ELSE /\ pc' = StrategyFor(app_name)
                /\ invoked' = Append(invoked, StrategyFor(app_name))
                /\ UNCHANGED response
    /\ UNCHANGED <<config, locals, loops, sas_links, scanned, sas_calls, warnings>>

\* the locals every handler starts with
container_names == app_container_mapping[app_name]
account_name == AccountName(app_name)

\* FindLatest sorting created_on ascending
FindLatest_Oldest(collection, cid) ==
    LET matching == {r \in collection : r.company_id = cid}
    IN  IF matching = {} THEN {<<>>}
        ELSE {<<r>> : r \in {m \in matching :
                                \A q \in matching : q.created_on >= m.created_on}}

\* ------------------------------------------------------ handle_atna_download
\* collection.find_one({'company_id': cid}, sort=[('created_on', -1)]): <<>> for
\* None, else <<r>> for a document r of the company with the greatest created_on
FindLatest(collection, cid) ==
    LET matching == {r \in collection : r.company_id = cid}
    IN  IF matching = {} THEN {<<>>}
        ELSE {<<r>> : r \in {m \in matching :
                                \A q \in matching : q.created_on <= m.created_on}}

handle_atna_download ==
    /\ pc = "handle_atna_download"
    /\ \E latest_record \in FindLatest(upload_collection, company_id) :
        IF \/ latest_record = <<>>
           \/ ~latest_record[1].has_uploads
           \/ latest_record[1].asset_add_uploads = <<>>
        THEN Respond(NoUploadRecord) /\ UNCHANGED upload_id
        ELSE /\ upload_id' = latest_record[1].asset_add_uploads[1]
             /\ pc' = "atna_scan"
             /\ UNCHANGED response
    /\ UNCHANGED <<config, files_to_download, csp_acct_name, latest_blob,
                   latest_container, loops, invoked, sas_links, scanned,
                   sas_calls, warnings>>

\* one step of the nested for loops of handle_atna_download
atna_scan ==
    /\ pc = "atna_scan"
    /\ UNCHANGED <<config, locals, invoked, sas_links, warnings, fi>>
    /\ IF ci > Len(container_names)
       THEN Respond(NoFileForUpload) /\ UNCHANGED <<ci, bi, scanned, sas_calls>>
       ELSE LET container_name == container_names[ci]
                blobs == storage[container_name]
            IN  IF bi > Len(blobs)
                THEN /\ ci' = ci + 1 /\ bi' = 1
                     /\ UNCHANGED <<pc, response, scanned, sas_calls>>
                ELSE /\ scanned' = Append(scanned, <<ci, bi>>)
                     /\ IF Contains(upload_id, blobs[bi].name)
                        THEN \E ok \in BOOLEAN :
                              /\ sas_calls' = Append(sas_calls,
                                    [container |-> container_name,
                                     blob |-> blobs[bi].name, ok |-> ok])
                              /\ Respond(IF ok
                                    THEN SasLink(MatchedFile(blobs[bi].name,
                                            generate_sas_url(account_name,
                                                container_name, blobs[bi].name)))
                                    ELSE UnhandledException)
                              /\ UNCHANGED <<ci, bi>>
                        ELSE /\ bi' = bi + 1
                             /\ UNCHANGED <<ci, pc, response, sas_calls>>

\* -------------------------------------------- handle_f5_checkpoint_download
\* collection.find_one({"company_id": cid}): <<>> for None, else <<r>>
FindOne(collection, cid) ==
    LET matching == {r \in collection : r.company_id = cid}
    IN  IF matching = {} THEN {<<>>} ELSE {<<r>> : r \in matching}

\* the record.get(...) list of the application
WorkbookFields(app) ==
    IF app = "F5" THEN F5Fields
    ELSE IF app = "CHECKPOINT" THEN CheckpointFields
    ELSE <<>>

\* FilesToDownload without the filter on empty values
FilesToDownload_Unfiltered(app, record) ==
    [i \in DOMAIN WorkbookFields(app) |-> record.fields[WorkbookFields(app)[i]]]

\* [f for f in files_to_download if f]
FilesToDownload(app, record) ==
    SelectSeq([i \in DOMAIN WorkbookFields(app) |->
                    record.fields[WorkbookFields(app)[i]]], Truthy)

handle_f5_checkpoint_download ==
    /\ pc = "handle_f5_checkpoint_download"
    /\ \E record \in FindOne(generic_collection, company_id) :
        IF record = <<>>
        THEN Respond(NoClientRecord) /\ UNCHANGED files_to_download
        ELSE IF FilesToDownload(app_name, record[1]) = <<>>
        THEN Respond(NoFilenamesConfigured) /\ UNCHANGED files_to_download
        ELSE /\ files_to_download' = FilesToDownload(app_name, record[1])
             /\ pc' = "f5_scan"
             /\ UNCHANGED response
    /\ UNCHANGED <<config, upload_id, csp_acct_name, latest_blob,
                   latest_container, loops, invoked, sas_links, scanned,
                   sas_calls, warnings>>

\* list(container_client.list_blobs(name_starts_with=prefix)), as the indexes
\* into the container's listing of the objects returned
ListBlobs(container_name, prefix) ==
    SelectSeq([i \in DOMAIN storage[container_name] |-> i],
        LAMBDA i : StartsWith(storage[container_name][i].name, prefix))

\* NameMatches relying on the name_starts_with filter alone
NameMatches_Prefix(blob, blob_name) == StartsWith(blob.name, blob_name)

\* if blob.name == blob_name
NameMatches(blob, blob_name) == blob.name = blob_name

\* where the loops go after a blob with blob.name == blob_name: `break` leaves
\* the loop over blob_list, so the next container of the same file is listed
AfterMatch(f, c) == <<f, c + 1>>

\* one step of the nested for loops of handle_f5_checkpoint_download
f5_scan ==
    /\ pc = "f5_scan"
    /\ UNCHANGED <<config, locals, invoked, warnings>>
    /\ IF fi > Len(files_to_download)
       THEN /\ Respond(IF sas_links # <<>> THEN SasLinks(sas_links)
                       ELSE NoMatchingBlobs)
            /\ UNCHANGED <<loops, sas_links, scanned, sas_calls>>
       ELSE IF ci > Len(container_names)
       THEN /\ fi' = fi + 1 /\ ci' = 1 /\ bi' = 1
            /\ UNCHANGED <<pc, response, sas_links, scanned, sas_calls>>
       ELSE LET blob_name == files_to_download[fi]
                container_name == container_names[ci]
                blob_list == ListBlobs(container_name, blob_name)
            IN  IF bi > Len(blob_list)
                THEN /\ ci' = ci + 1 /\ bi' = 1
                     /\ UNCHANGED <<fi, pc, response, sas_links, scanned, sas_calls>>
                ELSE /\ scanned' = Append(scanned, <<ci, blob_list[bi]>>)
                     /\ IF NameMatches(storage[container_name][blob_list[bi]],
                                       blob_name)
                        THEN \E ok \in BOOLEAN :
                              /\ sas_calls' = Append(sas_calls,
                                    [container |-> container_name,
                                     blob |-> blob_name, ok |-> ok])
                              /\ IF ok
                                 THEN /\ sas_links' = Append(sas_links,
                                            MatchedFile(blob_name,
                                                generate_sas_url(account_name,
                                                    container_name, blob_name)))
                                      /\ fi' = AfterMatch(fi, ci)[1]
                                      /\ ci' = AfterMatch(fi, ci)[2]
                                      /\ bi' = 1
                                      /\ UNCHANGED <<pc, response>>
                                 ELSE /\ Respond(UnhandledException)
                                      /\ UNCHANGED <<loops, sas_links>>
                        ELSE /\ bi' = bi + 1
                             /\ UNCHANGED <<fi, ci, pc, response, sas_links, sas_calls>>

\* -------------------------------------------------- handle_paloalto_download
handle_paloalto_download ==
    /\ pc = "handle_paloalto_download"
    /\ \E record \in FindOne(generic_collection, company_id) :
        IF record = <<>>
        THEN Respond(NoClientRecord) /\ UNCHANGED csp_acct_name
        ELSE LET connection_details == record[1].connection_details
             IN  IF \/ connection_details = <<>>
                    \/ ~Truthy(connection_details[1].csp_acct_name)
                 THEN Respond(NoAccountNameConfigured) /\ UNCHANGED csp_acct_name
                 ELSE /\ csp_acct_name' =
                            Normalize(connection_details[1].csp_acct_name)
                      /\ pc' = "paloalto_scan"
                      /\ UNCHANGED response
    /\ UNCHANGED <<config, upload_id, files_to_download, latest_blob,
                   latest_container, loops, invoked, sas_links, scanned,
                   sas_calls, warnings>>

\* csp_acct_name in df['CSP Acct Name'].values, after the column is normalized
ColumnHas(body, target) ==
    /\ body.has_column
    /\ \E i \in DOMAIN body.cells : Normalize(body.cells[i]) = target

\* one step of the nested for loops of handle_paloalto_download: the try block
\* holds the download, the parse, the test and the generate_sas_url call
paloalto_scan ==
    /\ pc = "paloalto_scan"
    /\ UNCHANGED <<config, locals, invoked, fi>>
    /\ IF ci > Len(container_names)
       THEN /\ Respond(IF sas_links # <<>> THEN SasLinks(sas_links)
                       ELSE NoMatchingData)
            /\ UNCHANGED <<ci, bi, sas_links, scanned, sas_calls, warnings>>
       ELSE LET container_name == container_names[ci]
                blobs == storage[container_name]
            IN  IF bi > Len(blobs)
                THEN /\ ci' = ci + 1 /\ bi' = 1
                     /\ UNCHANGED <<pc, response, sas_links, scanned, sas_calls,
                                    warnings>>
                ELSE LET blob == blobs[bi]
                     IN  /\ scanned' = Append(scanned, <<ci, bi>>)
                         /\ bi' = bi + 1
                         /\ UNCHANGED <<ci, pc, response>>
                         /\ IF ~blob.body.ok
                            THEN /\ warnings' = Append(warnings, blob.name)
                                 /\ UNCHANGED <<sas_links, sas_calls>>
                            ELSE IF ~ColumnHas(blob.body, csp_acct_name)
                            THEN UNCHANGED <<sas_links, sas_calls, warnings>>
                            ELSE \E ok \in BOOLEAN :
                                  /\ sas_calls' = Append(sas_calls,
                                        [container |-> container_name,
                                         blob |-> blob.name, ok |-> ok])
                                  /\ IF ok
                                     THEN /\ sas_links' = Append(sas_links,
                                                MatchedFile(blob.name,
                                                    generate_sas_url(account_name,
                                                        container_name, blob.name)))
                                          /\ UNCHANGED warnings
                                     ELSE /\ warnings' = Append(warnings, blob.name)
                                          /\ UNCHANGED sas_links

\* ----------------------------------------------- handle_latest_blob_download
\* [b for b in blobs if company_id in b.name]
Matching(blobs, cid) == SelectSeq(blobs, LAMBDA b : Contains(cid, b.name))

\* max(matching, key=lambda b: b.last_modified): the first of the greatest
MostRecent(matching) ==
    matching[CHOOSE i \in DOMAIN matching :
        /\ \A j \in DOMAIN matching :
              matching[j].last_modified <= matching[i].last_modified
        /\ \A j \in 1..(i - 1) :
              matching[j].last_modified < matching[i].last_modified]

\* Replaces with >= for >
Replaces_OnTie(most_recent, latest) ==
    latest = <<>> \/ most_recent.last_modified >= latest[1].last_modified

\* not latest_blob or most_recent.last_modified > latest_blob.last_modified
Replaces(most_recent, latest) ==
    latest = <<>> \/ most_recent.last_modified > latest[1].last_modified

\* one pass of the for loop of handle_latest_blob_download, then its tail
latest_scan ==
    /\ pc = "handle_latest_blob_download"
    /\ UNCHANGED <<config, upload_id, files_to_download, csp_acct_name, invoked,
                   sas_links, warnings, fi, bi>>
    /\ IF ci <= Len(container_names)
       THEN LET container_name == container_names[ci]
                blobs == storage[container_name]
                matching == Matching(blobs, company_id)
            IN  /\ scanned' = scanned \o [i \in DOMAIN blobs |-> <<ci, i>>]
                /\ ci' = ci + 1
                /\ IF matching # <<>> /\ Replaces(MostRecent(matching), latest_blob)
                   THEN /\ latest_blob' = <<MostRecent(matching)>>
                        /\ latest_container' = container_name
                   ELSE UNCHANGED <<latest_blob, latest_container>>
                /\ UNCHANGED <<pc, response, sas_calls>>
       ELSE /\ UNCHANGED <<ci, scanned, latest_blob, latest_container>>
            /\ IF latest_blob = <<>>
               THEN Respond(NoFilesFound) /\ UNCHANGED sas_calls
               ELSE \E ok \in BOOLEAN :
                     /\ sas_calls' = Append(sas_calls,
                            [container |-> latest_container,
                             blob |-> latest_blob[1].name, ok |-> ok])
                     /\ Respond(IF ok
                            THEN DownloadLink(MatchedFile(latest_blob[1].name,
                                    generate_sas_url(account_name, latest_container,
                                        latest_blob[1].name)))
                            ELSE LinkIssuanceError)

Next ==
    \/ download_latest_files
    \/ handle_atna_download
    \/ atna_scan
    \/ handle_f5_checkpoint_download
    \/ f5_scan
    \/ handle_paloalto_download
    \/ paloalto_scan
    \/ latest_scan

Spec == Init /\ [][Next]_vars
SpecTable == InitTable /\ [][Next]_vars

\* ================================================================ claims
Done == pc = "done"
Succeeded == Done /\ response.status = 200

\* positions <<container index, object index>> of the configured containers
Positions ==
    UNION {{<<c, b>> : b \in DOMAIN storage[container_names[c]]} :
              c \in DOMAIN container_names}
ObjectAt(p) == storage[container_names[p[1]]][p[2]]
Before(p, q) == p[1] < q[1] \/ (p[1] = q[1] /\ p[2] < q[2])

\* all positions, container by container and in listing order
RECURSIVE PositionsFrom(_)
PositionsFrom(c) ==
    IF c > Len(container_names) THEN <<>>
    ELSE [b \in DOMAIN storage[container_names[c]] |-> <<c, b>>]
            \o PositionsFrom(c + 1)

\* the container at index c holds an object named n
Holds(c, n) == \E p \in Positions : p[1] = c /\ ObjectAt(p).name = n

SomeCallFailed == \E i \in DOMAIN sas_calls : ~sas_calls[i].ok

\* ---------------------------------------------------------------------- C1
\* C1 as stated: a request that names an application which is not a key of
\* the table is answered 'Invalid application name', whatever company_id is
\* (empty and missing included).
C1_UnknownWhateverClient ==
    (Done /\ TruthyName(app_name)
        /\ app_name \notin DOMAIN app_container_mapping)
        => response = UnknownApplication

\* C1 amended: a request whose application_name is non-empty and not a key of
\* the table is answered 'Invalid application name' for every non-empty
\* company_id; when application_name or company_id is empty or missing the
\* answer is 'Missing application_name or company_id' instead.
C1_UnknownApplication ==
    (Done /\ app_name \notin DOMAIN app_container_mapping)
        => /\ response.status = 400
           /\ invoked = <<>>
           /\ response = IF TruthyName(app_name) /\ Truthy(company_id)
                         THEN UnknownApplication
                         ELSE InvalidRequest

C1_Witness ==
    /\ Done
    /\ app_name = "UNKNOWN"
    /\ company_id \in CompanyIds
    /\ response = UnknownApplication

\* ---------------------------------------------------------------------- C2
WorkbookRan == app_name \in WorkbookApps /\ files_to_download # <<>>

FileContainerPairs ==
    LET nc == Len(container_names)
    IN  [k \in 1..(Len(files_to_download) * nc) |->
            <<((k - 1) \div nc) + 1, ((k - 1) % nc) + 1>>]

ExpectedWorkbookFiles ==
    LET hits == SelectSeq(FileContainerPairs,
                    LAMBDA q : Holds(q[2], files_to_download[q[1]]))
    IN  [k \in DOMAIN hits |->
            MatchedFile(files_to_download[hits[k][1]],
                [account |-> account_name,
                 container |-> container_names[hits[k][2]],
                 blob |-> files_to_download[hits[k][1]]])]

C3_IssuanceFailureSurfaced ==
    (Done /\ SomeCallFailed) => response.status = 500

\* ---------------------------------------------------------------------- C4
\* the company's documents with the greatest created_on
LatestUploadRecords ==
    LET mine == {r \in upload_collection : r.company_id = company_id}
    IN  {r \in mine : \A q \in mine : q.created_on <= r.created_on}

\* C4: a successful upload-tracking resolution returns exactly one object: the
\* first one, in container order and then listing order, whose name contains
\* the first upload id of the company's document with the latest created_on;
\* the scan ends on that object and one link is issued.
C4_FirstMatchOfLatestUpload ==
    (Succeeded /\ app_name = "ATnA")
        => /\ Len(response.files) = 1
           /\ Len(sas_calls) = 1
           /\ \E r \in LatestUploadRecords : \E p \in Positions :
                /\ r.has_uploads /\ r.asset_add_uploads # <<>>
                /\ Contains(r.asset_add_uploads[1], ObjectAt(p).name)
                /\ \A q \in Positions :
                      Before(q, p) =>
                          ~Contains(r.asset_add_uploads[1], ObjectAt(q).name)
                /\ response.files[1].file = ObjectAt(p).name
                /\ response.files[1].download_url =
                      [account |-> account_name,
                       container |-> container_names[p[1]],
                       blob |-> ObjectAt(p).name]
                /\ scanned = SelectSeq(PositionsFrom(1),
                                LAMBDA q : q = p \/ Before(q, p))

C4_Witness ==
    /\ Succeeded /\ app_name = "ATnA"
    /\ \E r, o \in upload_collection :
        /\ r.company_id = company_id /\ o.company_id = company_id
        /\ o.created_on < r.created_on
        /\ o.asset_add_uploads # <<>> /\ r.asset_add_uploads # <<>>
        /\ o.asset_add_uploads[1] # r.asset_add_uploads[1]
        /\ \E p, q \in Positions :
            /\ p[1] < q[1]
            /\ container_names[p[1]] # container_names[q[1]]
            /\ Contains(r.asset_add_uploads[1], ObjectAt(p).name)
            /\ Contains(r.asset_add_uploads[1], ObjectAt(q).name)
            /\ response.files[1].download_url.container = container_names[p[1]]

\* ---------------------------------------------------------------------- C5
MatchingPositions == {p \in Positions : Contains(company_id, ObjectAt(p).name)}

\* C5: when some object name contains company_id, the recency handler returns
\* (unless link issuance fails) one object whose last_modified is >= that of
\* every matching object of every configured container, taken from the first
\* configured container that holds a matching object of that greatest
\* last_modified.
C5_LatestFirstContainerOnTie ==
    (Done /\ app_name \in RecencyApps /\ invoked # <<>>
        /\ MatchingPositions # {})
        => \/ response = LinkIssuanceError
           \/ /\ response.status = 200
              /\ Len(response.files) = 1
              /\ \E p \in MatchingPositions :
                    /\ \A q \in MatchingPositions :
                          /\ ObjectAt(q).last_modified <= ObjectAt(p).last_modified
                          /\ ObjectAt(q).last_modified = ObjectAt(p).last_modified
                                => p[1] <= q[1]
                    /\ response.files[1].file = ObjectAt(p).name
                    /\ response.files[1].download_url.blob = ObjectAt(p).name
                    /\ response.files[1].download_url.container =
                          container_names[p[1]]

C5_Witness ==
    /\ Succeeded /\ app_name \in RecencyApps
    /\ \E p, q \in MatchingPositions :
        /\ p[1] < q[1]
        /\ container_names[p[1]] # container_names[q[1]]
        /\ ObjectAt(p).last_modified = ObjectAt(q).last_modified
        /\ ObjectAt(p).name # ObjectAt(q).name
        /\ \A o \in MatchingPositions :
              ObjectAt(o).last_modified <= ObjectAt(p).last_modified
        /\ response.files[1].file = ObjectAt(p).name
        /\ \E o \in MatchingPositions :
              ObjectAt(o).last_modified < ObjectAt(p).last_modified

\* ---------------------------------------------------------------------- C6
ContentScanRan == app_name = "PALOALTO" /\ csp_acct_name # None

ContentMatches ==
    {p \in Positions :
        /\ ObjectAt(p).body.ok
        /\ ObjectAt(p).body.has_column
        /\ \E i \in DOMAIN ObjectAt(p).body.cells :
              Lower(Strip(ObjectAt(p).body.cells[i])) = csp_acct_name}

\* C6: the content-match scan visits every object of every configured
\* container, whatever fails on the way, and every object whose normalized
\* account-name column contains the normalized target is in the result.
C6_EveryMatchListed ==
    (Done /\ ContentScanRan)
        => /\ scanned = PositionsFrom(1)
           /\ \A p \in ContentMatches :
                \E i \in DOMAIN response.files :
                    /\ response.files[i].file = ObjectAt(p).name
                    /\ response.files[i].download_url.container =
                          container_names[p[1]]

\* ---------------------------------------------------------------------- C7
NoMatchingObject == {NoFileForUpload, NoMatchingBlobs}

\* C7: a scan that matches nothing ends 200 with an empty result in the
\* content-match and recency handlers and 404 NoMatchingObject in the
\* upload-tracking and processed-workbook handlers; content-match and recency
\* never answer NoMatchingObject (their only 404s are the missing record and the
\* missing account name).
C7_EmptyScanOutcome ==
    Done =>
        /\ (ContentScanRan /\ ContentMatches = {})
              => response.status = 200 /\ response.files = <<>>
        /\ (app_name \in RecencyApps /\ invoked # <<>>
                /\ MatchingPositions = {})
              => response.status = 200 /\ response.files = <<>>
        /\ (app_name = "ATnA" /\ upload_id # None
                /\ \A p \in Positions : ~Contains(upload_id, ObjectAt(p).name))
              => response.status = 404 /\ response \in NoMatchingObject
        /\ (WorkbookRan
                /\ \A p \in Positions :
                      ObjectAt(p).name \notin Range(files_to_download))
              => response.status = 404 /\ response \in NoMatchingObject
        /\ (app_name \in RecencyApps /\ invoked # <<>>)
              => response.status \in {200, 500}
        /\ (app_name = "PALOALTO" /\ response.status = 404)
              => /\ ~ContentScanRan
                 /\ response \in {NoClientRecord, NoAccountNameConfigured}

C7_Witness ==
    /\ Done /\ ContentScanRan
    /\ Positions # {} /\ ContentMatches = {}
    /\ \E p \in Positions : ObjectAt(p).body.has_column
    /\ response.status = 200 /\ response.files = <<>>

\* ---------------------------------------------------------------------- C8
\* the company's document of the generic collection, when there is one
HasClientRecord == \E r \in generic_collection : r.company_id = company_id
ClientRecord == CHOOSE r \in generic_collection : r.company_id = company_id

ClaimedFields ==
    IF app_name = "F5"
    THEN {"license_asset_summary_workbook_processed",
          "pricing_retired_workbook_processed",
          "pricing_active_workbook_processed"}
    ELSE {"orders_workbook_processed", "product_list_workbook_processed"}

NonEmptyFilenames ==
    {ClientRecord.fields[f] : f \in ClaimedFields} \ {None, <<>>}
MatchedFilenames ==
    {n \in NonEmptyFilenames : \E p \in Positions : ObjectAt(p).name = n}
ListedFilenames == {response.files[i].file : i \in DOMAIN response.files}

\* C8 as stated: with a client record, the outcome is NoFilenamesConfigured
\* exactly when all the application's fields are empty or absent,
\* NoMatchingObject exactly when some field is non-empty and no non-empty
\* filename names an object of a configured container, and otherwise a
\* success listing the filenames that matched.
C8_ThreeOutcomes ==
    (Done /\ app_name \in WorkbookApps /\ HasClientRecord)
        => /\ response = NoFilenamesConfigured <=> NonEmptyFilenames = {}
           /\ response = NoMatchingBlobs
                <=> (NonEmptyFilenames # {} /\ MatchedFilenames = {})
           /\ MatchedFilenames # {}
                => /\ response.status = 200
                   /\ ListedFilenames = MatchedFilenames

\* C8 amended: as stated, except that when some filename matched the outcome
\* is the success listing the matched filenames only if every link was issued;
\* when generate_sas_url fails for a matched filename the request ends with
\* status 500.
C8_ThreeOutcomesOrIssuanceFailure ==
    (Done /\ app_name \in WorkbookApps /\ HasClientRecord)
        => /\ response = NoFilenamesConfigured <=> NonEmptyFilenames = {}
           /\ response = NoMatchingBlobs
                <=> (NonEmptyFilenames # {} /\ MatchedFilenames = {})
           /\ MatchedFilenames # {}
                => \/ /\ ~SomeCallFailed
                      /\ response.status = 200
                      /\ ListedFilenames = MatchedFilenames
                   \/ /\ SomeCallFailed
                      /\ response.status = 500
                      /\ response.files = <<>>

C8_Witness ==
    /\ Succeeded /\ app_name = "F5" /\ HasClientRecord
    /\ Cardinality(NonEmptyFilenames) = 2
    /\ Cardinality(MatchedFilenames) = 1
    /\ \E f \in ClaimedFields : ~Truthy(ClientRecord.fields[f])
    /\ ListedFilenames = MatchedFilenames

\* ---------------------------------------------------------------------- C9
ClaimedStrategy ==
    [a \in {"ATnA", "F5", "CHECKPOINT", "PALOALTO", "EAROI", "MCE", "CISCOIBR",
            "BYOW"} |->
        CASE a = "ATnA" -> "handle_atna_download"
          [] a \in {"F5", "CHECKPOINT"} -> "handle_f5_checkpoint_download"
          [] a = "PALOALTO" -> "handle_paloalto_download"
          [] OTHER -> "handle_latest_blob_download"]

StepsOf(strategy) ==
    CASE strategy = "handle_atna_download" ->
            {"handle_atna_download", "atna_scan"}
      [] strategy = "handle_f5_checkpoint_download" ->
            {"handle_f5_checkpoint_download", "f5_scan"}
      [] strategy = "handle_paloalto_download" ->
            {"handle_paloalto_download", "paloalto_scan"}
      [] OTHER -> {"handle_latest_blob_download"}

\* C9: a request with non-empty inputs and a configured application_name runs
\* exactly one handler, the one its application_name selects: ATnA
\* upload-tracking; F5, CHECKPOINT processed-workbook; PALOALTO content-match;
\* EAROI, MCE, CISCOIBR, BYOW recency.
C9_ExactlyOneStrategy ==
    /\ DOMAIN app_container_mapping = DOMAIN ClaimedStrategy
    /\ (pc # "request" /\ TruthyName(app_name) /\ Truthy(company_id)
            /\ app_name \in DOMAIN app_container_mapping)
          => /\ invoked = <<ClaimedStrategy[app_name]>>
             /\ pc \in StepsOf(ClaimedStrategy[app_name]) \cup {"done"}

C9_Witness ==
    /\ Done
    /\ app_name = "CHECKPOINT"
    /\ invoked = <<"handle_f5_checkpoint_download">>
    /\ response.status = 200

\* --------------------------------------------------------------------- C10
MatchRule(blob) ==
    CASE app_name = "ATnA" -> Contains(upload_id, blob.name)
      [] app_name \in WorkbookApps -> blob.name \in Range(files_to_download)
      [] app_name = "PALOALTO" ->
            /\ blob.body.ok /\ blob.body.has_column
            /\ \E i \in DOMAIN blob.body.cells :
                  Lower(Strip(blob.body.cells[i])) = csp_acct_name
      [] OTHER -> Contains(company_id, blob.name)

\* C10: every link of a successful result is signed for a container and an
\* object name such that an object of that name was listed in that container
\* during the request and satisfies the handler's match rule; the file the
\* entry names is that object.
C10_LinkBoundToListedObject ==
    Succeeded =>
        \A i \in DOMAIN response.files :
            LET e == response.files[i]
            IN  /\ e.download_url.blob = e.file
                /\ e.download_url.account = AccountName(app_name)
                /\ \E k \in DOMAIN scanned :
                      /\ container_names[scanned[k][1]] = e.download_url.container
                      /\ ObjectAt(scanned[k]).name = e.file
                      /\ MatchRule(ObjectAt(scanned[k]))

C10_Witness ==
    /\ Succeeded /\ app_name \in RecencyApps
    /\ Len(container_names) = 2
    /\ container_names[1] # container_names[2]
    /\ \E p, q \in MatchingPositions :
        /\ p[1] = 1 /\ q[1] = 2
        /\ ObjectAt(q).last_modified < ObjectAt(p).last_modified
        /\ ~Holds(2, ObjectAt(p).name)
        /\ response.files[1].file = ObjectAt(p).name
        /\ response.files[1].download_url.container = container_names[1]

====
